---- MODULE Spec2Model ----
(***************************************************************************)
(* Model of server.js: the POST /swap handler (quote -> allowance ->       *)
(* build -> broadcast -> confirmation), ensureAllowance, the validators    *)
(* and the trace recorder.  Every `await` of the handler is a step         *)
(* boundary: an action consumes the result of the call the request waits   *)
(* for and runs the handler up to the next call it issues.                 *)
(*                                                                         *)
(* Text whose characters matter (addresses, amounts) is a tuple of         *)
(* one-character strings; JSON body values are records [t, v].  Numbers    *)
(* of the slippage computation are integers in units of 1/Unit.             *)
(***************************************************************************)
EXTENDS Integers, Sequences, FiniteSets, TLC

\* ---------------------------------------------------------------- bounds
NReq == 2          \* request slots (one request and its retries / rivals)
UintBits == 2      \* width standing for the 256 bits of uint256
AddrLen == 2       \* hex digits of an address (40 in the program)

Reqs == 1..NReq

\* ------------------------------------------------------- program constants
CHAIN_ID == 42161
MinSlippageBps == 1
MaxSlippageBps == 2000
Unit == 10 ^ 4      \* resolution of a JS number in the model: 1 is Unit units

\* ethers.MaxUint256, at the model's width
MaxUint256 == 2 ^ UintBits - 1

\* ------------------------------------------------------------ JSON values
Str(s) == [t |-> "str", v |-> s]
Num(n) == [t |-> "num", v |-> n]
Bool(b) == [t |-> "bool", v |-> b]
Arr(a) == [t |-> "arr", v |-> a]
Null == [t |-> "null", v |-> 0]
NaN == [t |-> "nan", v |-> 0]

\* JS truthiness of a JSON value (x || y, !x)
Truthy(j) ==
  CASE j.t = "str" -> j.v # <<>>
    [] j.t = "num" -> j.v # 0
    [] j.t = "bool" -> j.v
    [] j.t = "arr" -> TRUE
    [] OTHER -> FALSE

DigitChars == <<"0", "1", "2", "3", "4", "5", "6", "7", "8", "9">>
IsDigit(c) == \E i \in 1..10 : DigitChars[i] = c
DigitVal(c) == (CHOOSE i \in 1..10 : DigitChars[i] = c) - 1

\* /^\d+$/.test(s)
IsUnsignedInt(s) == Len(s) > 0 /\ \A i \in 1..Len(s) : IsDigit(s[i])

\* BigInt(s) for a string of decimal digits
RECURSIVE ParseDec(_)
ParseDec(s) ==
  IF s = <<>> THEN 0
  ELSE 10 * ParseDec(SubSeq(s, 1, Len(s) - 1)) + DigitVal(s[Len(s)])

\* decimal digits of a natural number
RECURSIVE NatToStr(_)
NatToStr(n) ==
  IF n < 10 THEN <<DigitChars[n + 1]>>
  ELSE NatToStr(n \div 10) \o <<DigitChars[(n % 10) + 1]>>

\* fractional digits of m/Unit without trailing zeros (m in 1..Unit-1)
RECURSIVE FracStr(_, _)
FracStr(m, scale) ==
  IF m = 0 THEN <<>>
  ELSE <<DigitChars[(m * 10) \div scale + 1]>> \o FracStr((m * 10) % scale, scale)

\* String(n) for a JS number n (in Unit units)
NumToStr(n) ==
  LET a == IF n < 0 THEN 0 - n ELSE n
      body == NatToStr(a \div Unit) \o
              (IF a % Unit = 0 THEN <<>> ELSE <<".">> \o FracStr(a % Unit, Unit))
  IN IF n < 0 THEN <<"-">> \o body ELSE body

\* String(x) for a JSON value
ToStr(j) ==
  CASE j.t = "str" -> j.v
    [] j.t = "num" -> NumToStr(j.v)
    [] j.t = "bool" -> IF j.v THEN <<"t", "r", "u", "e">> ELSE <<"f", "a", "l", "s", "e">>
    [] OTHER -> <<"n", "u", "l", "l">>

\* Number(x) for a JSON value; strings of digits parse, other text is NaN
ToNumber(j) ==
  CASE j.t = "num" -> j
    [] j.t = "str" -> IF j.v = <<>> THEN Num(0)
                      ELSE IF IsUnsignedInt(j.v) THEN Num(ParseDec(j.v) * Unit)
                      ELSE NaN
    [] j.t = "bool" -> IF j.v THEN Num(Unit) ELSE Num(0)
    [] j.t = "null" -> Num(0)
    [] OTHER -> NaN

\* ------------------------------------------------------------- addresses
LowerOf(c) == CASE c = "A" -> "a" [] c = "B" -> "b" [] OTHER -> c
UpperOf(c) == CASE c = "a" -> "A" [] c = "b" -> "B" [] OTHER -> c
IsHex(c) == c \in {"1", "a", "b", "A", "B"}
IsLowerLetter(c) == c \in {"a", "b"}
IsUpperLetter(c) == c \in {"A", "B"}

\* String.prototype.toLowerCase
toLowerCase(s) == [i \in 1..Len(s) |-> LowerOf(s[i])]

\* stand-in for the keccak nibble that decides the case of hex digit i
HexCode(c) == CASE c = "a" -> 10 [] c = "b" -> 11 [] OTHER -> 1
RECURSIVE CodeSum(_)
CodeSum(s) == IF s = <<>> THEN 0 ELSE HexCode(Head(s)) + CodeSum(Tail(s))
HashBit(s, i) == (CodeSum(s) + i) % 2 = 0

\* EIP-55 checksum form of a hex string
getChecksumAddress(s) ==
  LET l == toLowerCase(s)
  IN [i \in 1..Len(l) |-> IF HashBit(l, i) THEN UpperOf(l[i]) ELSE l[i]]

\* does ethers.getAddress accept the text?
IsAddress(s) ==
  /\ Len(s) = AddrLen
  /\ \A i \in 1..Len(s) : IsHex(s[i])
  /\ \/ ~ ((\E i \in 1..Len(s) : IsLowerLetter(s[i])) /\ (\E i \in 1..Len(s) : IsUpperLetter(s[i])))
     \/ getChecksumAddress(s) = s

\* ------------------------------------------------------- the environment
\* an address text of AddrLen characters that starts with a, b
MkAddr(a, b) == <<a, b>> \o [i \in 1..(AddrLen - 2) |-> "1"]
\* the same text with the case of every letter flipped
FlipCase(s) == [i \in 1..Len(s) |-> IF IsUpperLetter(s[i]) THEN LowerOf(s[i]) ELSE UpperOf(s[i])]

SignerKeyAddr == MkAddr("a", "b")                \* address of PRIVATE_KEY
OtherAddr == MkAddr("b", "1")
TokenA == MkAddr("1", "a")
TokenB == MkAddr("1", "b")
Proxy1 == MkAddr("b", "a")
Proxy2 == MkAddr("b", "b")
Proxies == {Proxy1, Proxy2}
Malformed == MkAddr("z", "z")

\* ERC-20 allowance slots (token, owner, spender) the requests can touch
AllowKeys == {<<getChecksumAddress(TokenA), getChecksumAddress(SignerKeyAddr), p>> : p \in Proxies}
InitAllowances == {0, 2}

\* request bodies: wallet x tokenFrom x amountWei x slippageBps x unsignedOnly
WalletInputs ==
  {SignerKeyAddr, getChecksumAddress(SignerKeyAddr), FlipCase(getChecksumAddress(SignerKeyAddr)),
   OtherAddr, Malformed}
TokenFromInputs == {TokenA, MkAddr("z", "1")}
AmountInputs == {Str(<<"2">>), Str(NatToStr(MaxUint256 + 1)), Str(<<"1", ".", "5">>), Num(0)}
SlippageInputs ==
  {Num(0), Num(Unit \div 2), Num(MinSlippageBps * Unit), Num((3 * Unit) \div 2),
   Num(MaxSlippageBps * Unit), Num((MaxSlippageBps + 1) * Unit), Str(<<"x">>)}

BaseFields ==
  [wallet |-> Str(SignerKeyAddr), tokenFrom |-> Str(TokenA), tokenTo |-> Str(TokenB),
   amountWei |-> Str(<<"2">>), slippageBps |-> Num(120 * Unit), unsignedOnly |-> Bool(TRUE)]

ProductBodies ==
  {[isObject |-> TRUE,
    f |-> [wallet |-> Str(w), tokenFrom |-> Str(tf), tokenTo |-> Str(TokenB),
           amountWei |-> a, slippageBps |-> s, unsignedOnly |-> Bool(u)]] :
     w \in WalletInputs, tf \in TokenFromInputs, a \in AmountInputs,
     s \in SlippageInputs, u \in BOOLEAN}

ExtraBodies ==
  {[isObject |-> FALSE, f |-> <<>>],
   [isObject |-> TRUE, f |-> [wallet |-> Str(SignerKeyAddr), tokenFrom |-> Str(TokenA)]],
   [isObject |-> TRUE, f |-> [BaseFields EXCEPT !.amountWei = Str(<<>>)]],
   [isObject |-> TRUE, f |-> [BaseFields EXCEPT !.tokenTo = Str(Malformed)]],
   [isObject |-> TRUE, f |-> [BaseFields EXCEPT !.slippageBps = Null]],
   [isObject |-> TRUE, f |-> BaseFields @@ [excludeDexs |-> Arr(<<"Dexalot", "Wombat">>)]]}

Bodies == ProductBodies \cup ExtraBodies

\* 200 bodies of GET /prices
QuoteBodies ==
  {[priceRoute |-> [destAmount |-> <<"9">>, tokenTransferProxy |-> Proxy1]],
   [priceRoute |-> [destAmount |-> <<"9">>, tokenTransferProxy |-> Proxy1],
    destAmount |-> <<"8">>, tokenTransferProxy |-> Proxy2],
   [destAmount |-> <<"9">>, tokenTransferProxy |-> Proxy2],
   [priceRoute |-> [destAmount |-> <<"9">>], tokenTransferProxy |-> Proxy2],
   [priceRoute |-> [tokenTransferProxy |-> Proxy1]],
   [priceRoute |-> [destAmount |-> <<"9">>]],
   [error |-> "No routes found"]}

\* 200 bodies of POST /transactions/:chainId
TxBodies ==
  {[to |-> MkAddr("a", "1"), data |-> <<"d">>, value |-> <<"0">>, gas |-> <<"5">>, gasPrice |-> <<"1">>],
   [to |-> MkAddr("a", "1"), data |-> <<"d">>],
   [data |-> <<"d">>],
   [to |-> MkAddr("a", "1")],
   [to |-> MkAddr("a", "1"), data |-> <<"d">>, value |-> <<"1", ".", "5">>]}

\* what axios throws: a non-2xx reply, or no reply at all
UpstreamStatuses == {400, 503}
HttpError(st, d) ==
  [message |-> "Request failed with status code", response |-> [status |-> st, data |-> d]]
AxiosErrors ==
  {HttpError(st, d) : st \in UpstreamStatuses,
                      d \in {[error |-> "upstream says no"], [message |-> "raw upstream body"]}}
  \cup {[message |-> "Network Error"]}
ChainError == [message |-> "chain call failed"]

HttpResults(okBodies) ==
  {[ok |-> TRUE, data |-> d] : d \in okBodies} \cup {[ok |-> FALSE, e |-> e] : e \in AxiosErrors}

\* ------------------------------------------------------------------ state
VARIABLES
  signer,     \* the process-wide signing identity (null without PRIVATE_KEY)
  allowance,  \* on-chain ERC-20 allowance of each slot
  pc,         \* per request: the call it awaits, "idle" or "done"
  body,       \* per request: req.body
  local,      \* per request: the handler's constants defined so far
  logs,       \* per request: the logs array of mkLogBag
  calls,      \* per request: the external calls issued so far, in order
  replies,    \* per request: the results its external calls returned, in order
  resp,       \* per request: the responses sent
  prev        \* per request: what the attempt it repeats left behind

vars == <<signer, allowance, pc, body, local, logs, calls, replies, resp, prev>>

\* ---------------------------------------------------------------- helpers
\* (mutant: the entry is put in front)
push_front(L, tag, obj) == <<[tag |-> tag, obj |-> obj]>> \o L

\* push of mkLogBag: one more entry at the end of logs
push(L, tag, obj) == Append(L, [tag |-> tag, obj |-> obj])

badRequest(message) == [message |-> message, status |-> 400]

\* res.status(status).json({ ok: false, error, logs })
FailWithLogs(error, L) == [status |-> 400, ok |-> FALSE, error |-> error, logs |-> L]

\* the catch block of the handler: the response sent for exception e
CatchResponse(e) ==
  LET hasResp == "response" \in DOMAIN e
      msg == IF hasResp /\ "error" \in DOMAIN e.response.data THEN e.response.data.error
             ELSE IF "message" \in DOMAIN e THEN e.message
             ELSE "Erro"
      status == IF hasResp THEN e.response.status
                ELSE IF "status" \in DOMAIN e THEN e.status
                ELSE 500
  IN [status |-> status, ok |-> FALSE, error |-> msg,
      details |-> IF hasResp THEN e.response.data ELSE Null]

\* where a segment of the handler leaves the request
Done(st, rsp) ==
  [pc |-> "done", local |-> st.local, logs |-> st.logs, calls |-> st.calls, resp |-> <<rsp>>]
Await(st, p) ==
  [pc |-> p, local |-> st.local, logs |-> st.logs, calls |-> st.calls, resp |-> <<>>]
\* (mutant: the catch block sends nothing)
Thrown_silent(st, e) ==
  [pc |-> "done", local |-> st.local, logs |-> st.logs, calls |-> st.calls, resp |-> <<>>]

Thrown(st, e) == Done(st, CatchResponse(e))

\* assertAddr: does ethers.getAddress take the value, and what it returns
AddrOk(j) == j.t = "str" /\ IsAddress(j.v)
assertAddr(j) == getChecksumAddress(j.v)

\* Array.prototype.join(",")
RECURSIVE Join(_)
Join(a) ==
  IF a = <<>> THEN <<>>
  ELSE IF Len(a) = 1 THEN <<a[1]>>
  ELSE <<a[1], ",">> \o Join(Tail(a))

\* (slippageBps / 100) rounded to four decimals, in Unit units
SlippagePercent(bps) == (bps + 50) \div 100

\* Number.prototype.toFixed(4)
toFixed4(n) ==
  LET fr == n % Unit
      pad == IF fr < 10 THEN <<"0", "0", "0">>
             ELSE IF fr < 100 THEN <<"0", "0">>
             ELSE IF fr < 1000 THEN <<"0">>
             ELSE <<>>
  IN NatToStr(n \div Unit) \o <<".">> \o pad \o NatToStr(fr)

\* Number("d.dddd")
RECURSIVE parseFixed(_, _)
parseFixed(s, acc) ==
  IF s = <<>> THEN acc
  ELSE IF Head(s) = "." THEN parseFixed(Tail(s), acc)
  ELSE parseFixed(Tail(s), 10 * acc + DigitVal(Head(s)))

requiredFields == {"wallet", "tokenFrom", "tokenTo", "amountWei", "slippageBps"}
IsMissing(f, k) ==
  \/ k \notin DOMAIN f
  \/ f[k].t = "null"
  \/ (f[k].t = "str" /\ f[k].v = <<>>)

\* !amountWei || !/^\d+$/.test(amountWei), negated
AmountOk(amountWei) == amountWei # <<>> /\ IsUnsignedInt(amountWei)
\* (mutant: the upper limit is not tested)
SlippageOk_noUpper(n) ==
  /\ n.t = "num"
  /\ n.v # 0
  /\ ~ (n.v < MinSlippageBps * Unit)

\* !slippageBps || slippageBps < 1 || slippageBps > 2000, negated
SlippageOk(n) ==
  /\ n.t = "num"
  /\ n.v # 0
  /\ ~ (n.v < MinSlippageBps * Unit)
  /\ ~ (n.v > MaxSlippageBps * Unit)

\* (mutant: the comparison is skipped)
SignerMismatch_off(signerAddr, wallet) == FALSE

\* signerAddr.toLowerCase() !== wallet.toLowerCase()
SignerMismatch(signerAddr, wallet) == toLowerCase(signerAddr) # toLowerCase(wallet)

\* ------------------------------------------------- segments of the handler
\* "1) ParaSwap /prices": build pricesParams, log them, issue the GET
IssuePrices(st) ==
  LET l == st.local
      csv == Join(l.excludeDexs)
      pricesParams ==
        [srcToken |-> l.tokenFrom, destToken |-> l.tokenTo, amount |-> l.amountWei,
         side |-> "SELL", network |-> CHAIN_ID, userAddress |-> l.wallet,
         slippage |-> toFixed4(SlippagePercent(l.slippageBps.v))]
        @@ (IF csv # <<>> THEN [excludeDEXS |-> csv] ELSE <<>>)
  IN Await([local |-> l,
            logs |-> push(st.logs, "PARASWAP_PRICES", pricesParams),
            calls |-> Append(st.calls, [op |-> "GET /prices", params |-> pricesParams])],
           "prices")

\* the handler from its entry to its first await
Validate(b, sg) ==
  LET st0 == [local |-> <<>>, logs |-> <<>>, calls |-> <<>>]
  IN IF ~ b.isObject THEN Thrown(st0, badRequest("Body invalido"))
     ELSE IF \E k \in requiredFields : IsMissing(b.f, k)
       THEN Thrown(st0, badRequest("Campos obrigatorios ausentes"))
     ELSE IF ~ AddrOk(b.f.wallet) THEN Thrown(st0, badRequest("Endereco invalido em wallet"))
     ELSE IF ~ AddrOk(b.f.tokenFrom) THEN Thrown(st0, badRequest("Endereco invalido em tokenFrom"))
     ELSE IF ~ AddrOk(b.f.tokenTo) THEN Thrown(st0, badRequest("Endereco invalido em tokenTo"))
     ELSE
       LET f == b.f
           l == [wallet |-> assertAddr(f.wallet),
                 tokenFrom |-> assertAddr(f.tokenFrom),
                 tokenTo |-> assertAddr(f.tokenTo),
                 amountWei |-> IF Truthy(f.amountWei) THEN ToStr(f.amountWei) ELSE <<>>,
                 slippageBps |-> IF Truthy(f.slippageBps) THEN ToNumber(f.slippageBps) ELSE Num(0),
                 excludeDexs |-> IF "excludeDexs" \in DOMAIN f /\ f.excludeDexs.t = "arr"
                                 THEN f.excludeDexs.v ELSE <<>>,
                 unsignedOnly |-> "unsignedOnly" \in DOMAIN f /\ Truthy(f.unsignedOnly)]
           st1 == [local |-> l, logs |-> push(<<>>, "WALLET", l), calls |-> <<>>]
       IN IF ~ AmountOk(l.amountWei) THEN Done(st1, FailWithLogs("amountWei invalido", st1.logs))
          ELSE IF ~ SlippageOk(l.slippageBps)
            THEN Done(st1, FailWithLogs("slippageBps invalido (1..2000)", st1.logs))
          ELSE IF ~ l.unsignedOnly
            THEN IF ~ sg.configured
                   THEN Done(st1, FailWithLogs("PRIVATE_KEY nao configurada", st1.logs))
                   ELSE Await([st1 EXCEPT !.calls = Append(@, [op |-> "signer.getAddress"])],
                              "getAddress")
          ELSE IssuePrices(st1)

\* after await signer.getAddress()
AfterGetAddress(st, signerAddr) ==
  IF SignerMismatch(signerAddr, st.local.wallet)
  THEN Done(st, FailWithLogs("wallet nao bate com o signer do servidor", st.logs))
  ELSE IssuePrices(st)

\* x?.[k], with the empty text standing for undefined (both are falsy)
Opt(o, k) == IF k \in DOMAIN o THEN o[k] ELSE <<>>
\* a || b on texts
OrElse(a, b) == IF a # <<>> THEN a ELSE b

\* (mutant: the top-level field is looked at first)
QuoteField_topFirst(data, k) ==
  OrElse(Opt(data, k), IF "priceRoute" \in DOMAIN data THEN Opt(data.priceRoute, k) ELSE <<>>)

\* priceRoute?.priceRoute?.X || priceRoute?.X
QuoteField(data, k) ==
  OrElse(IF "priceRoute" \in DOMAIN data THEN Opt(data.priceRoute, k) ELSE <<>>, Opt(data, k))

\* (mutant: fails only when both are absent)
NoRoute_both(destAmount, tokenTransferProxy) == destAmount = <<>> /\ tokenTransferProxy = <<>>

\* !destAmount || !tokenTransferProxy
NoRoute(destAmount, tokenTransferProxy) == destAmount = <<>> \/ tokenTransferProxy = <<>>

\* (mutant: the whole quote body is passed on, wrapper included)
RoutePayload_whole(data) == data

\* priceRoute.priceRoute || priceRoute
RoutePayload(data) == IF "priceRoute" \in DOMAIN data THEN data.priceRoute ELSE data

\* (mutant: the destination amount is sent along with the slippage)
TxBody_withDestAmount(l) ==
  [priceRoute |-> RoutePayload(l.priceRoute),
   srcToken |-> l.tokenFrom, destToken |-> l.tokenTo, srcAmount |-> l.amountWei,
   userAddress |-> l.wallet,
   slippage |-> Num(parseFixed(toFixed4(SlippagePercent(l.slippageBps.v)), 0)),
   destAmount |-> l.destAmount]

\* the body of POST /transactions
TxBody(l) ==
  [priceRoute |-> RoutePayload(l.priceRoute),
   srcToken |-> l.tokenFrom, destToken |-> l.tokenTo, srcAmount |-> l.amountWei,
   userAddress |-> l.wallet,
   slippage |-> Num(parseFixed(toFixed4(SlippagePercent(l.slippageBps.v)), 0))]

\* "3) ParaSwap /transactions": build txBody, log its summary, issue the POST
IssueTransactions(st) ==
  LET txBody == TxBody(st.local)
  IN Await([local |-> st.local,
            logs |-> push(st.logs, "PARASWAP_TX_BODY",
                          [userAddress |-> st.local.wallet, slippage |-> txBody.slippage]),
            calls |-> Append(st.calls, [op |-> "POST /transactions", body |-> txBody])],
           "transactions")

\* (mutant: the allowance step runs in either mode)
NeedsAllowance_always(l) == TRUE

\* (mutant: the allowance step never runs)
NeedsAllowance_never(l) == FALSE

\* "2) Approve (se for assinar no servidor)"
NeedsAllowance(l) == ~ l.unsignedOnly

\* ensureAllowance up to await c.allowance(owner, spender)
IssueAllowance(st) ==
  LET l == st.local
  IN Await([st EXCEPT !.calls = Append(@, [op |-> "allowance", token |-> l.tokenFrom,
                                            owner |-> l.wallet, spender |-> l.tokenTransferProxy])],
           "allowance")

\* after await axios.get(.../prices)
AfterPrices(st, res) ==
  IF ~ res.ok THEN Thrown(st, res.e)
  ELSE
    LET priceRoute == res.data
        destAmount == QuoteField(priceRoute, "destAmount")
        tokenTransferProxy == QuoteField(priceRoute, "tokenTransferProxy")
    IN IF NoRoute(destAmount, tokenTransferProxy)
       THEN Done(st, [status |-> 400, ok |-> FALSE,
                      error |-> "ParaSwap nao retornou destAmount/tokenTransferProxy",
                      raw |-> priceRoute, logs |-> st.logs])
       ELSE
         LET st1 == [local |-> st.local @@ [priceRoute |-> priceRoute, destAmount |-> destAmount,
                                            tokenTransferProxy |-> tokenTransferProxy],
                     logs |-> push(st.logs, "PRICE_OK",
                                   [destAmount |-> destAmount,
                                    tokenTransferProxy |-> tokenTransferProxy]),
                     calls |-> st.calls]
         IN IF NeedsAllowance(st1.local) THEN IssueAllowance(st1) ELSE IssueTransactions(st1)

\* (mutants: strict comparison; the early return is missing)
AllowanceSufficient_strict(a, neededWei) == a > ParseDec(neededWei)
AllowanceSufficient_never(a, neededWei) == FALSE

\* allowance >= BigInt(neededWei)
AllowanceSufficient(a, neededWei) == a >= ParseDec(neededWei)

\* (mutant: approves the needed amount only)
ApproveAmount_needed(neededWei) == ParseDec(neededWei)

\* the amount ensureAllowance approves
ApproveAmount(neededWei) == MaxUint256

\* ensureAllowance after await c.allowance(owner, spender)
AfterAllowance(st, res) ==
  IF ~ res.ok THEN Thrown(st, res.e)
  ELSE
    LET l == st.local
        st1 == [st EXCEPT !.logs = push(@, "ALLOWANCE",
                  [spender |-> l.tokenTransferProxy, allowance |-> NatToStr(res.value),
                   neededWei |-> l.amountWei])]
    IN IF AllowanceSufficient(res.value, l.amountWei)
       THEN IssueTransactions([st1 EXCEPT !.local = @ @@ [ensureAllowance |-> [approved |-> FALSE]]])
       ELSE Await([st1 EXCEPT
                     !.logs = push(@, "APPROVING",
                                   [spender |-> l.tokenTransferProxy, amount |-> "MaxUint256"]),
                     !.calls = Append(@, [op |-> "approve", token |-> l.tokenFrom,
                                          spender |-> l.tokenTransferProxy,
                                          amount |-> ApproveAmount(l.amountWei)])],
                  "approve")

\* (mutant: a failed approval is submitted again)
AfterApprove_retry(st, res) ==
  IF ~ res.ok THEN Await([st EXCEPT !.calls = Append(@, st.calls[Len(st.calls)])], "approve")
  ELSE Await([st EXCEPT !.logs = push(@, "APPROVE_SENT", [hash |-> res.hash]),
                        !.calls = Append(@, [op |-> "approve.wait", hash |-> res.hash])],
             "approveWait")

\* (mutant: the confirmation of the approval is not awaited)
AfterApprove_noWait(st, res) ==
  IF ~ res.ok THEN Thrown(st, res.e)
  ELSE IssueTransactions([st EXCEPT !.logs = push(@, "APPROVE_SENT", [hash |-> res.hash]),
                                    !.local = @ @@ [ensureAllowance |-> [approved |-> TRUE]]])

\* ensureAllowance after await c.approve(spender, MaxUint256)
AfterApprove(st, res) ==
  IF ~ res.ok THEN Thrown(st, res.e)
  ELSE Await([st EXCEPT !.logs = push(@, "APPROVE_SENT", [hash |-> res.hash]),
                        !.calls = Append(@, [op |-> "approve.wait", hash |-> res.hash])],
             "approveWait")

\* ensureAllowance after await tx.wait(), and the handler up to the POST
AfterApproveWait(st, res) ==
  IF ~ res.ok THEN Thrown(st, res.e)
  ELSE IssueTransactions([st EXCEPT
         !.logs = push(@, "APPROVE_CONFIRMED", [block |-> res.blockNumber]),
         !.local = @ @@ [ensureAllowance |-> [approved |-> TRUE]]])

\* can BigInt(text) be computed?
BigIntOk(s) == s = <<>> \/ IsUnsignedInt(s)

\* (mutant: the call-data is not looked at)
IncompleteTx_toOnly(txData) == Opt(txData, "to") = <<>>

\* !txData?.to || !txData?.data
IncompleteTx(txData) == Opt(txData, "to") = <<>> \/ Opt(txData, "data") = <<>>

\* (mutant: the unsigned result is sent and the handler runs on to the broadcast)
ReturnUnsigned_fallthrough(st, txData) ==
  [pc |-> "send", local |-> st.local, logs |-> st.logs,
   calls |-> Append(st.calls, [op |-> "sendTransaction", to |-> txData.to,
                               data |-> Opt(txData, "data"), value |-> 0]),
   resp |-> <<[status |-> 200, ok |-> TRUE, mode |-> "unsignedOnly", txData |-> txData,
               destAmount |-> st.local.destAmount, logs |-> st.logs]>>]

\* return res.json({ ok: true, mode: "unsignedOnly", txData, destAmount, logs })
ReturnUnsigned(st, txData) ==
  Done(st, [status |-> 200, ok |-> TRUE, mode |-> "unsignedOnly",
            txData |-> txData, destAmount |-> st.local.destAmount, logs |-> st.logs])

\* after await axios.post(.../transactions/CHAIN_ID)
AfterTransactions(st, res) ==
  IF ~ res.ok THEN Thrown(st, res.e)
  ELSE
    LET txData == res.data
        l == st.local
    IN IF IncompleteTx(txData)
       THEN Done(st, [status |-> 400, ok |-> FALSE, error |-> "ParaSwap nao retornou tx completa",
                      raw |-> txData, logs |-> st.logs])
       ELSE
         LET value == OrElse(Opt(txData, "value"), <<"0">>)
             st1 == [local |-> l @@ [txData |-> txData],
                     logs |-> push(st.logs, "TX_OK",
                                   [to |-> txData.to, value |-> value]
                                   @@ (IF "gasPrice" \in DOMAIN txData
                                       THEN [gasPrice |-> txData.gasPrice] ELSE <<>>)
                                   @@ (IF "gas" \in DOMAIN txData
                                       THEN [gas |-> txData.gas] ELSE <<>>)),
                     calls |-> st.calls]
         IN IF l.unsignedOnly
            THEN ReturnUnsigned(st1, txData)
            ELSE IF ~ BigIntOk(value) \/ ~ BigIntOk(Opt(txData, "gas"))
              THEN Thrown(st1, [message |-> "Cannot convert to a BigInt"])
            ELSE Await([st1 EXCEPT !.calls = Append(@,
                          [op |-> "sendTransaction", to |-> txData.to,
                           data |-> Opt(txData, "data"), value |-> ParseDec(value)]
                          @@ (IF Opt(txData, "gas") # <<>>
                              THEN [gasLimit |-> ParseDec(txData.gas)] ELSE <<>>))],
                       "send")

\* after await signer.sendTransaction(...)
AfterSend(st, res) ==
  IF ~ res.ok THEN Thrown(st, res.e)
  ELSE Await([local |-> st.local @@ [tx |-> [hash |-> res.hash]],
              logs |-> push(st.logs, "SENT", [hash |-> res.hash]),
              calls |-> Append(st.calls, [op |-> "tx.wait", hash |-> res.hash])],
             "wait")

\* after await tx.wait()
AfterWait(st, res) ==
  IF ~ res.ok THEN Thrown(st, res.e)
  ELSE
    LET L == push(st.logs, "CONFIRMED", [block |-> res.blockNumber, status |-> res.status])
    IN Done([st EXCEPT !.logs = L],
            [status |-> 200, ok |-> TRUE, hash |-> st.local.tx.hash, block |-> res.blockNumber,
             txStatus |-> res.status, destAmount |-> st.local.destAmount, logs |-> L])

\* ----------------------------------------------------------------- actions
State(r) == [local |-> local[r], logs |-> logs[r], calls |-> calls[r]]

\* request r receives result res of the call op it awaits and runs on to out
Apply(r, op, res, out) ==
  /\ replies' = [replies EXCEPT ![r] = Append(@, [op |-> op, res |-> res])]
  /\ pc' = [pc EXCEPT ![r] = out.pc]
  /\ local' = [local EXCEPT ![r] = out.local]
  /\ logs' = [logs EXCEPT ![r] = out.logs]
  /\ calls' = [calls EXCEPT ![r] = out.calls]
  /\ resp' = [resp EXCEPT ![r] = @ \o out.resp]

HasTag(L, tag) == \E i \in 1..Len(L) : L[i].tag = tag
HasCall(C, op) == \E i \in 1..Len(C) : C[i].op = op
CallsOf(C, op) == {i \in 1..Len(C) : C[i].op = op}

\* a first attempt repeats nothing
NoPrev == [retry |-> FALSE, approved |-> <<>>, swapFailed |-> FALSE]
\* what a finished attempt leaves behind: the spender whose approval it saw
\* confirmed, and whether its swap broadcast was issued (and did not succeed)
Left(r) ==
  [retry |-> TRUE,
   approved |-> IF HasTag(logs[r], "APPROVE_CONFIRMED") THEN local[r].tokenTransferProxy ELSE <<>>,
   swapFailed |-> HasCall(calls[r], "sendTransaction")]

ChainResults(okResults) == okResults \cup {[ok |-> FALSE, e |-> ChainError]}

Init ==
  /\ signer \in {[configured |-> FALSE],
                 [configured |-> TRUE, address |-> getChecksumAddress(SignerKeyAddr)]}
  /\ allowance \in [AllowKeys -> InitAllowances]
  /\ pc = [r \in Reqs |-> "idle"]
  /\ body = [r \in Reqs |-> [isObject |-> FALSE, f |-> <<>>]]
  /\ local = [r \in Reqs |-> <<>>]
  /\ logs = [r \in Reqs |-> <<>>]
  /\ calls = [r \in Reqs |-> <<>>]
  /\ replies = [r \in Reqs |-> <<>>]
  /\ resp = [r \in Reqs |-> <<>>]
  /\ prev = [r \in Reqs |-> NoPrev]

\* a request arrives: app.post("/swap") runs to its first await
Begin(r, b, pv) ==
  LET out == Validate(b, signer)
  IN /\ body' = [body EXCEPT ![r] = b]
     /\ prev' = [prev EXCEPT ![r] = pv]
     /\ pc' = [pc EXCEPT ![r] = out.pc]
     /\ local' = [local EXCEPT ![r] = out.local]
     /\ logs' = [logs EXCEPT ![r] = out.logs]
     /\ calls' = [calls EXCEPT ![r] = out.calls]
     /\ replies' = [replies EXCEPT ![r] = <<>>]
     /\ resp' = [resp EXCEPT ![r] = out.resp]
     /\ UNCHANGED <<signer, allowance>>

\* a caller sends a request
Start ==
  /\ pc[1] = "idle"
  /\ \E b \in Bodies : Begin(1, b, NoPrev)

\* the caller repeats, unchanged, a request that ended in a failure response
Retry ==
  /\ pc[1] = "done"
  /\ ~ resp[1][1].ok
  /\ Begin(1, body[1], Left(1))

GetAddressReturn(r) ==
  /\ pc[r] = "getAddress"
  /\ Apply(r, "signer.getAddress", [ok |-> TRUE, value |-> signer.address],
           AfterGetAddress(State(r), signer.address))
  /\ UNCHANGED <<signer, allowance, body, prev>>

\* the pricing service answers request r with one of results
PricesReturnFrom(r, results) ==
  /\ pc[r] = "prices"
  /\ \E res \in results : Apply(r, "GET /prices", res, AfterPrices(State(r), res))
  /\ UNCHANGED <<signer, allowance, body, prev>>

PricesReturn(r) == PricesReturnFrom(r, HttpResults(QuoteBodies))

\* the account the signer sends from
SignerAddress == IF signer.configured THEN signer.address ELSE <<>>

\* the allowance the chain holds for a slot
AllowanceOf(token, owner, spender) ==
  IF <<token, owner, spender>> \in AllowKeys THEN allowance[<<token, owner, spender>>] ELSE 0

AllowanceReturn(r) ==
  /\ pc[r] = "allowance"
  /\ LET l == local[r]
     IN \E res \in ChainResults({[ok |-> TRUE,
                                  value |-> AllowanceOf(l.tokenFrom, l.wallet, l.tokenTransferProxy)]}) :
          Apply(r, "allowance", res, AfterAllowance(State(r), res))
  /\ UNCHANGED <<signer, allowance, body, prev>>

ApproveReturn(r) ==
  /\ pc[r] = "approve"
  /\ \E res \in ChainResults({[ok |-> TRUE, hash |-> "0xapprove"]}) :
       Apply(r, "approve", res, AfterApprove(State(r), res))
  /\ UNCHANGED <<signer, allowance, body, prev>>

\* the approval is mined (the slot takes the approved amount) or reverts
ApproveWaitReturn(r) ==
  /\ pc[r] = "approveWait"
  /\ LET c == calls[r][Len(calls[r]) - 1]
         key == <<c.token, SignerAddress, c.spender>>
     IN \E res \in ChainResults({[ok |-> TRUE, blockNumber |-> 7]}) :
          /\ Apply(r, "approve.wait", res, AfterApproveWait(State(r), res))
          /\ allowance' = IF res.ok /\ key \in AllowKeys
                          THEN [allowance EXCEPT ![key] = c.amount]
                          ELSE allowance
  /\ UNCHANGED <<signer, body, prev>>

\* the build service answers request r with one of results
TransactionsReturnFrom(r, results) ==
  /\ pc[r] = "transactions"
  /\ \E res \in results : Apply(r, "POST /transactions", res, AfterTransactions(State(r), res))
  /\ UNCHANGED <<signer, allowance, body, prev>>

TransactionsReturn(r) == TransactionsReturnFrom(r, HttpResults(TxBodies))

SendReturn(r) ==
  /\ pc[r] = "send"
  /\ \E res \in ChainResults({[ok |-> TRUE, hash |-> "0xswap"]}) :
       Apply(r, "sendTransaction", res, AfterSend(State(r), res))
  /\ UNCHANGED <<signer, allowance, body, prev>>

WaitReturn(r) ==
  /\ pc[r] = "wait"
  /\ \E res \in ChainResults({[ok |-> TRUE, blockNumber |-> 8, status |-> 1]}) :
       Apply(r, "tx.wait", res, AfterWait(State(r), res))
  /\ UNCHANGED <<signer, allowance, body, prev>>

Step(r) ==
  \/ GetAddressReturn(r)
  \/ PricesReturn(r)
  \/ AllowanceReturn(r)
  \/ ApproveReturn(r)
  \/ ApproveWaitReturn(r)
  \/ TransactionsReturn(r)
  \/ SendReturn(r)
  \/ WaitReturn(r)

Next ==
  \/ Start
  \/ Retry
  \/ \E r \in Reqs : Step(r)

Spec == Init /\ [][Next]_vars

\* the continuation of a handler runs once the call it awaits has settled, and
\* every call settles: a pending step of a request is eventually taken
Fairness == \A r \in Reqs : WF_vars(Step(r))

FairSpec == Init /\ [][Next]_vars /\ Fairness

\* ------------------------------------------- concurrent signed-mode requests
\* Express runs one handler per request; handlers share the signer and the
\* chain and interleave at their awaits. The requests here are signed-mode
\* swaps of the same token from the signer's wallet, and the services answer
\* with a usable quote, a complete transaction, or no reply at all.
ConcBodies ==
  {[isObject |-> TRUE,
    f |-> [BaseFields EXCEPT !.amountWei = Str(a), !.unsignedOnly = Bool(FALSE)]] :
     a \in {<<"2">>, NatToStr(MaxUint256)}}
ConcResults(okBody) ==
  {[ok |-> TRUE, data |-> okBody], [ok |-> FALSE, e |-> [message |-> "Network Error"]]}
ConcQuoteResults ==
  ConcResults([priceRoute |-> [destAmount |-> <<"9">>, tokenTransferProxy |-> Proxy1]])
ConcTxResults == ConcResults([to |-> MkAddr("a", "1"), data |-> <<"d">>])

InitConc ==
  /\ Init
  /\ signer.configured
  /\ \A k \in AllowKeys : k[3] # Proxy1 => allowance[k] = 0

\* a request arrives while others are in flight
StartConc(r) ==
  /\ pc[r] = "idle"
  /\ \E b \in ConcBodies : Begin(r, b, NoPrev)

StepConc(r) ==
  \/ GetAddressReturn(r)
  \/ PricesReturnFrom(r, ConcQuoteResults)
  \/ AllowanceReturn(r)
  \/ ApproveReturn(r)
  \/ ApproveWaitReturn(r)
  \/ TransactionsReturnFrom(r, ConcTxResults)
  \/ SendReturn(r)
  \/ WaitReturn(r)

NextConc == \E r \in Reqs : StartConc(r) \/ StepConc(r)

SpecConc == InitConc /\ [][NextConc]_vars

TypeOK == \A r \in Reqs : Len(resp[r]) <= 1 /\ (pc[r] = "done" <=> Len(resp[r]) = 1)

\* ------------------------------------------------------------------ claims
Rsp(r) == resp[r][1]
Responded(r) == pc[r] = "done"
Validated(r) == "wallet" \in DOMAIN local[r]
OpsOf(C) == {C[i].op : i \in 1..Len(C)}
NetworkOps == {"GET /prices", "allowance", "approve", "approve.wait", "POST /transactions",
               "sendTransaction", "tx.wait"}
ChainOps == {"signer.getAddress", "allowance", "approve", "approve.wait", "sendTransaction",
             "tx.wait"}
\* the replies request r got for calls op
RepliesOf(r, op) == {replies[r][i].res : i \in {j \in 1..Len(replies[r]) : replies[r][j].op = op}}

\* C1: a signed-mode request whose wallet is not the signer's address (compared
\* without regard to case) is answered with the wallet/signer mismatch failure,
\* and issues no quote, allowance read, approval, build or broadcast.
MismatchCase(r) ==
  /\ Validated(r)
  /\ ~ local[r].unsignedOnly
  /\ signer.configured
  /\ toLowerCase(signer.address) # toLowerCase(local[r].wallet)
C1_MismatchFailsBeforeCalls ==
  \A r \in Reqs :
    MismatchCase(r) =>
      /\ OpsOf(calls[r]) \cap NetworkOps = {}
      /\ (Responded(r) /\ AmountOk(local[r].amountWei) /\ SlippageOk(local[r].slippageBps)) =>
           /\ Rsp(r).status = 400
           /\ ~ Rsp(r).ok
           /\ Rsp(r).error = "wallet nao bate com o signer do servidor"
      /\ (AmountOk(local[r].amountWei) /\ SlippageOk(local[r].slippageBps)) =>
           pc[r] \in {"getAddress", "done"}
C1_Witness ==
  \E r \in Reqs :
    /\ MismatchCase(r)
    /\ Responded(r)
    /\ Rsp(r).error = "wallet nao bate com o signer do servidor"
    /\ calls[r] = <<[op |-> "signer.getAddress"]>>

\* C2: every response, success or failure, carries the trace accumulated so
\* far, also when the failure is an exception of the quote call, the approval,
\* the build call or the broadcast.
C2_EveryResponseCarriesTrace ==
  \A r \in Reqs :
    (Responded(r) /\ logs[r] # <<>>) =>
      /\ "logs" \in DOMAIN Rsp(r)
      /\ Rsp(r).logs = logs[r]

\* C3: a quote body without destination amount or without transfer proxy (in
\* the priceRoute wrapper and at top level) ends the request with the 400
\* no-route failure carrying that body and a trace with the quote parameters,
\* and no allowance read, approval, build or broadcast is issued.
HasField(data, k) ==
  \/ k \in DOMAIN data
  \/ ("priceRoute" \in DOMAIN data /\ k \in DOMAIN data.priceRoute)
Unusable(data) == ~ HasField(data, "destAmount") \/ ~ HasField(data, "tokenTransferProxy")
C3_NoRoute ==
  \A r \in Reqs :
    \A q \in RepliesOf(r, "GET /prices") :
      (q.ok /\ Unusable(q.data)) =>
        /\ Responded(r)
        /\ Rsp(r).status = 400
        /\ ~ Rsp(r).ok
        /\ Rsp(r).error = "ParaSwap nao retornou destAmount/tokenTransferProxy"
        /\ Rsp(r).raw = q.data
        /\ "logs" \in DOMAIN Rsp(r)
        /\ \E i \in 1..Len(Rsp(r).logs) :
             /\ Rsp(r).logs[i].tag = "PARASWAP_PRICES"
             /\ \E c \in 1..Len(calls[r]) :
                  calls[r][c].op = "GET /prices" /\ calls[r][c].params = Rsp(r).logs[i].obj
        /\ OpsOf(calls[r]) \cap (NetworkOps \ {"GET /prices"}) = {}
C3_Witness ==
  \E r \in Reqs :
    /\ Responded(r)
    /\ Validated(r)
    /\ ~ local[r].unsignedOnly
    /\ \E q \in RepliesOf(r, "GET /prices") :
         q.ok /\ ~ HasField(q.data, "destAmount") /\ HasField(q.data, "tokenTransferProxy")
    /\ "raw" \in DOMAIN Rsp(r)

\* C4: when the approval was confirmed and the swap broadcast (or its
\* confirmation) then fails, the response is a failure, nothing lowers the
\* allowance afterwards, and a retry of the same request reads a sufficient
\* allowance and submits no approval.
FailedReply(r, ops) == \E i \in 1..Len(replies[r]) : replies[r][i].op \in ops /\ ~ replies[r][i].res.ok
OkReply(r, ops) == \E i \in 1..Len(replies[r]) : replies[r][i].op \in ops /\ replies[r][i].res.ok
ApprovedThenSwapFailed(r) ==
  /\ OkReply(r, {"approve.wait"})
  /\ FailedReply(r, {"sendTransaction", "tx.wait"})
SwapFailureReported(r) ==
  ApprovedThenSwapFailed(r) => (Responded(r) /\ ~ Rsp(r).ok /\ Rsp(r).status >= 400)
AllowanceKept == \A k \in AllowKeys : allowance'[k] >= allowance[k]
RetryAfterApprovedSwapFailure(r) ==
  /\ prev[r].retry
  /\ prev[r].approved # <<>>
  /\ prev[r].swapFailed
  /\ OkReply(r, {"allowance"})
ReadsSufficientAndSkipsApproval(r) ==
  /\ \A a \in RepliesOf(r, "allowance") : a.value >= ParseDec(local[r].amountWei)
  /\ ~ HasCall(calls[r], "approve")
C4_RetryNeverReapproves ==
  /\ [](\A r \in Reqs :
          /\ SwapFailureReported(r)
          /\ RetryAfterApprovedSwapFailure(r) => ReadsSufficientAndSkipsApproval(r))
  /\ [][AllowanceKept]_vars
\* C4 as amended: the retry is spared the approval when its quote names the
\* transfer proxy that was approved and the amount fits in a uint256.
C4_RetrySameSpenderNeverReapproves ==
  /\ [](\A r \in Reqs :
          /\ SwapFailureReported(r)
          /\ (/\ RetryAfterApprovedSwapFailure(r)
              /\ local[r].tokenTransferProxy = prev[r].approved
              /\ ParseDec(local[r].amountWei) <= 2 ^ UintBits - 1)
             => ReadsSufficientAndSkipsApproval(r))
  /\ [][AllowanceKept]_vars
C4_Witness ==
  \E r \in Reqs :
    /\ RetryAfterApprovedSwapFailure(r)
    /\ local[r].tokenTransferProxy = prev[r].approved
    /\ HasCall(calls[r], "POST /transactions")
    /\ ~ HasCall(calls[r], "approve")

\* C5: when the allowance read is at least the needed amount, ensureAllowance
\* issues no approve call and returns approved=false, however often repeated.
C5_SufficientAllowanceNoWrite ==
  \A r \in Reqs :
    \A a \in RepliesOf(r, "allowance") :
      (a.ok /\ a.value >= ParseDec(local[r].amountWei)) =>
        /\ OpsOf(calls[r]) \cap {"approve", "approve.wait"} = {}
        /\ "ensureAllowance" \in DOMAIN local[r]
        /\ local[r].ensureAllowance = [approved |-> FALSE]
C5_Witness ==
  \E r \in Reqs :
    /\ prev[r].retry
    /\ \E a \in RepliesOf(r, "allowance") :
         a.ok /\ a.value = ParseDec(local[r].amountWei) /\ a.value < 2 ^ UintBits - 1
    /\ "ensureAllowance" \in DOMAIN local[r]
    /\ ~ local[r].ensureAllowance.approved

\* C6: when the allowance read is below the needed amount, exactly one approval
\* is submitted, for the maximum uint256; approved=true is returned only after
\* the confirmation wait completed, and a failed submission or wait returns
\* no result.
C6_InsufficientAllowanceApprovesMax ==
  \A r \in Reqs :
    \A a \in RepliesOf(r, "allowance") :
      (a.ok /\ a.value < ParseDec(local[r].amountWei)) =>
        /\ Cardinality(CallsOf(calls[r], "approve")) = 1
        /\ \A i \in CallsOf(calls[r], "approve") :
             /\ calls[r][i].amount = 2 ^ UintBits - 1
             /\ calls[r][i].spender = local[r].tokenTransferProxy
             /\ calls[r][i].token = local[r].tokenFrom
        /\ "ensureAllowance" \in DOMAIN local[r] =>
             (local[r].ensureAllowance = [approved |-> TRUE] /\ OkReply(r, {"approve.wait"}))
        /\ OkReply(r, {"approve.wait"}) => "ensureAllowance" \in DOMAIN local[r]
        /\ FailedReply(r, {"approve", "approve.wait"}) =>
             /\ "ensureAllowance" \notin DOMAIN local[r]
             /\ Responded(r)
             /\ ~ Rsp(r).ok
             /\ ~ HasCall(calls[r], "POST /transactions")
C6_Witness ==
  \E r \in Reqs :
    /\ "ensureAllowance" \in DOMAIN local[r]
    /\ local[r].ensureAllowance.approved
    /\ \E a \in RepliesOf(r, "allowance") : a.ok /\ a.value > 0 /\ a.value < ParseDec(local[r].amountWei)
    /\ Cardinality(CallsOf(calls[r], "approve")) = 1

\* C7: an unsigned-mode request performs no chain interaction (no signer
\* lookup, allowance read, approval, broadcast or wait) and, when quote and
\* build succeed, answers 200 with mode unsignedOnly, the built transaction and
\* the quoted destination amount, with or without a configured signer.
UnsignedCase(r) == Validated(r) /\ local[r].unsignedOnly
QuotedDest(data) ==
  IF "priceRoute" \in DOMAIN data /\ "destAmount" \in DOMAIN data.priceRoute
  THEN data.priceRoute.destAmount
  ELSE data.destAmount
CompleteTx(t) == "to" \in DOMAIN t /\ "data" \in DOMAIN t
C7_UnsignedNoChain ==
  \A r \in Reqs :
    UnsignedCase(r) =>
      /\ OpsOf(calls[r]) \cap ChainOps = {}
      /\ \A q \in RepliesOf(r, "GET /prices") :
           \A t \in RepliesOf(r, "POST /transactions") :
             (q.ok /\ ~ Unusable(q.data) /\ t.ok /\ CompleteTx(t.data)) =>
               /\ Responded(r)
               /\ Rsp(r).ok
               /\ Rsp(r).status = 200
               /\ Rsp(r).mode = "unsignedOnly"
               /\ Rsp(r).txData = t.data
               /\ Rsp(r).destAmount = QuotedDest(q.data)
C7_Witness ==
  \E r \in Reqs :
    /\ UnsignedCase(r)
    /\ ~ signer.configured
    /\ Responded(r)
    /\ Rsp(r).ok
    /\ Rsp(r).mode = "unsignedOnly"
    /\ calls[r] # <<>>

\* C8: every transaction-build request carries a slippage percentage and no
\* destination-amount target.
C8_BuildHasSlippageNoDestAmount ==
  \A r \in Reqs :
    \A i \in CallsOf(calls[r], "POST /transactions") :
      /\ "slippage" \in DOMAIN calls[r][i].body
      /\ calls[r][i].body.slippage.t = "num"
      /\ "destAmount" \notin DOMAIN calls[r][i].body
C8_Witness ==
  \E r \in Reqs :
    /\ Validated(r)
    /\ ~ local[r].unsignedOnly
    /\ HasCall(calls[r], "POST /transactions")
    /\ "destAmount" \in DOMAIN local[r].priceRoute

\* C9: a malformed wallet or token address, an amount that is not an unsigned
\* integer, or a slippage outside [1,2000] ends the request with a 400 failure
\* before any external call; the slippage values 1 and 2000 pass validation.
Fields(r) == body[r].f
WellFormed(r) == pc[r] # "idle" /\ body[r].isObject /\ requiredFields \subseteq DOMAIN Fields(r)
BadAddress(r) ==
  \E k \in {"wallet", "tokenFrom", "tokenTo"} : Fields(r)[k].t = "str" /\ ~ IsAddress(Fields(r)[k].v)
BadAmount(r) == Fields(r).amountWei.t = "str" /\ ~ IsUnsignedInt(Fields(r).amountWei.v)
BadSlippage(r) ==
  /\ Fields(r).slippageBps.t = "num"
  /\ (Fields(r).slippageBps.v < 1 * Unit \/ Fields(r).slippageBps.v > 2000 * Unit)
BoundarySlippage(r) ==
  /\ Fields(r).slippageBps.t = "num"
  /\ Fields(r).slippageBps.v \in {1 * Unit, 2000 * Unit}
Rejected400(r) ==
  /\ Responded(r)
  /\ Rsp(r).status = 400
  /\ ~ Rsp(r).ok
  /\ calls[r] = <<>>
  /\ replies[r] = <<>>
C9_InvalidInputRejectedEarly ==
  \A r \in Reqs :
    WellFormed(r) =>
      /\ (BadAddress(r) \/ BadAmount(r) \/ BadSlippage(r)) => Rejected400(r)
      /\ (BoundarySlippage(r) /\ ~ BadAddress(r) /\ ~ BadAmount(r) /\ Fields(r).amountWei.t = "str") =>
           /\ ~ (Responded(r) /\ ~ Rsp(r).ok /\ Rsp(r).error = "slippageBps invalido (1..2000)")
           /\ UnsignedCase(r) => HasCall(calls[r], "GET /prices")
C9_Witness ==
  \E r \in Reqs :
    /\ WellFormed(r)
    /\ ~ BadAddress(r)
    /\ ~ BadAmount(r)
    /\ Fields(r).slippageBps = Num(2001 * Unit)
    /\ Rejected400(r)
    /\ Rsp(r).error = "slippageBps invalido (1..2000)"

\* C10: a non-2xx reply of the pricing or of the build service ends the
\* request with a 400-class failure that carries the upstream body, whatever
\* the upstream status was.
C10_UpstreamErrorIs400Class ==
  \A r \in Reqs :
    \A op \in {"GET /prices", "POST /transactions"} :
      \A res \in RepliesOf(r, op) :
        (~ res.ok /\ "response" \in DOMAIN res.e) =>
          /\ Responded(r)
          /\ ~ Rsp(r).ok
          /\ Rsp(r).status \in 400..499
          /\ Rsp(r).details = res.e.response.data

\* the operations request r has called, in the order of the calls
Ops(r) == [i \in 1..Len(calls[r]) |-> calls[r][i].op]
\* the i-th call of request r has been answered, and how
Answered(r, i) == i <= Len(replies[r]) /\ replies[r][i].op = calls[r][i].op
Failed(r, i) == Answered(r, i) /\ ~ replies[r][i].res.ok

\* C11: within one request every external call (quote, allowance read,
\* approval, approval wait, build, broadcast, confirmation wait) is issued at
\* most once, and a call that failed is the last call of the request: the
\* request is answered with a failure and nothing is retried or issued after.
C11_NoRepeatNoCallAfterFailure ==
  \A r \in Reqs :
    /\ \A op \in NetworkOps : Cardinality(CallsOf(calls[r], op)) <= 1
    /\ Len(replies[r]) <= Len(calls[r])
    /\ \A i \in 1..Len(replies[r]) : Answered(r, i)
    /\ (Responded(r) /\ ~ Rsp(r).ok) => Len(replies[r]) = Len(calls[r])
    /\ \A i \in 1..Len(calls[r]) :
         Failed(r, i) => (i = Len(calls[r]) /\ Responded(r) /\ ~ Rsp(r).ok)
C11_Witness ==
  \E r \in Reqs :
    /\ Len(calls[r]) >= 6
    /\ HasCall(calls[r], "approve")
    /\ Failed(r, Len(calls[r]))
    /\ calls[r][Len(calls[r])].op = "sendTransaction"
    /\ Responded(r)

\* the request passes every check that precedes the slippage check
ReachesSlippageCheck(r) ==
  /\ WellFormed(r)
  /\ ~ BadAddress(r)
  /\ Fields(r).amountWei.t = "str"
  /\ IsUnsignedInt(Fields(r).amountWei.v)
  /\ Fields(r).slippageBps.t = "num"
IntegerSlippage(r) == Fields(r).slippageBps.v % Unit = 0
SlippageRejected(r) ==
  /\ Rejected400(r)
  /\ Rsp(r).error = "slippageBps invalido (1..2000)"

\* C12: the slippage check accepts exactly the integers 1..2000: a value that
\* is not an integer (1.5, say) or lies outside the range is answered with the
\* invalid-slippage failure, and an integer within the range is not.
C12_SlippageAcceptsExactlyIntegersInRange ==
  \A r \in Reqs :
    ReachesSlippageCheck(r) =>
      IF IntegerSlippage(r) /\ ~ BadSlippage(r)
      THEN ~ (Responded(r) /\ ~ Rsp(r).ok /\ Rsp(r).error = "slippageBps invalido (1..2000)")
      ELSE SlippageRejected(r)

IsPrefix(s, t) == Len(s) <= Len(t) /\ \A i \in 1..Len(s) : s[i] = t[i]
SignedCase(r) == Validated(r) /\ ~ local[r].unsignedOnly
\* the calls of a signed-mode request that runs to its end, with or without
\* an approval
SignedOrder(approves) ==
  <<"signer.getAddress", "GET /prices", "allowance">>
    \o (IF approves THEN <<"approve", "approve.wait">> ELSE <<>>)
    \o <<"POST /transactions", "sendTransaction", "tx.wait">>
ReadInsufficient(r) ==
  \E a \in RepliesOf(r, "allowance") : a.ok /\ a.value < ParseDec(local[r].amountWei)
ReadSufficient(r) ==
  \E a \in RepliesOf(r, "allowance") : a.ok /\ a.value >= ParseDec(local[r].amountWei)

\* C13: a signed-mode request calls, in this order, the quote, the allowance
\* read, the approval and its wait (these two exactly when the allowance read
\* was insufficient), the build, the broadcast and the confirmation wait; a
\* call is issued only once the call before it has returned successfully, and
\* the broadcast only once the build has returned a complete transaction.
C13_SignedOrder ==
  \A r \in Reqs :
    SignedCase(r) =>
      /\ IsPrefix(Ops(r), SignedOrder(HasCall(calls[r], "approve")))
      /\ HasCall(calls[r], "approve") => ReadInsufficient(r)
      /\ (HasCall(calls[r], "POST /transactions") /\ ~ HasCall(calls[r], "approve")) =>
           ReadSufficient(r)
      /\ Len(calls[r]) <= Len(replies[r]) + 1
      /\ \A i \in 2..Len(calls[r]) : Answered(r, i - 1) /\ replies[r][i - 1].res.ok
      /\ HasCall(calls[r], "sendTransaction") =>
           \E t \in RepliesOf(r, "POST /transactions") : t.ok /\ CompleteTx(t.data)
C13_Witness ==
  \E r \in Reqs :
    /\ SignedCase(r)
    /\ Ops(r) = SignedOrder(TRUE)
    /\ Responded(r)
    /\ Rsp(r).ok

\* the route the quote reply carries: what its priceRoute wrapper holds when it
\* has one, the whole body otherwise
QuotedRoute(data) == IF "priceRoute" \in DOMAIN data THEN data.priceRoute ELSE data

\* C14: the build request carries the route of this request's quote reply
\* unchanged, and its source token, destination token, source amount and user
\* address are those the quote request was sent with.
C14_BuildRepeatsQuote ==
  \A r \in Reqs :
    \A i \in CallsOf(calls[r], "POST /transactions") :
      \E j \in CallsOf(calls[r], "GET /prices") :
        /\ j < i
        /\ Answered(r, j)
        /\ replies[r][j].res.ok
        /\ calls[r][i].body.priceRoute = QuotedRoute(replies[r][j].res.data)
        /\ calls[r][i].body.srcToken = calls[r][j].params.srcToken
        /\ calls[r][i].body.destToken = calls[r][j].params.destToken
        /\ calls[r][i].body.srcAmount = calls[r][j].params.amount
        /\ calls[r][i].body.userAddress = calls[r][j].params.userAddress
C14_Witness ==
  \E r \in Reqs :
    \E i \in CallsOf(calls[r], "POST /transactions") :
      /\ "priceRoute" \in DOMAIN replies[r][i - 1].res.data
      /\ "tokenTransferProxy" \in DOMAIN replies[r][i - 1].res.data
      /\ calls[r][i].body.priceRoute = replies[r][i - 1].res.data.priceRoute
      /\ calls[r][i].body.srcAmount = <<"2">>

\* the responses of request r that hand the built transaction to the caller
UnsignedReturns(r) == {k \in 1..Len(resp[r]) : "txData" \in DOMAIN resp[r][k]}
\* the transaction the build service returned to request r
BuiltTx(r) == {t.data : t \in {u \in RepliesOf(r, "POST /transactions") : u.ok}}

\* C15: a request builds at most one swap transaction and uses it at most
\* once: it is handed back unsigned or it is broadcast, once, and never both.
C15_BuiltTxUsedAtMostOnce ==
  \A r \in Reqs :
    /\ Cardinality(CallsOf(calls[r], "POST /transactions")) <= 1
    /\ Cardinality(CallsOf(calls[r], "sendTransaction")) <= 1
    /\ Cardinality(UnsignedReturns(r)) <= 1
    /\ ~ (UnsignedReturns(r) # {} /\ HasCall(calls[r], "sendTransaction"))
    /\ \A k \in UnsignedReturns(r) : local[r].unsignedOnly /\ resp[r][k].txData \in BuiltTx(r)
    /\ \A i \in CallsOf(calls[r], "sendTransaction") :
         /\ ~ local[r].unsignedOnly
         /\ \E t \in BuiltTx(r) : t.to = calls[r][i].to /\ t.data = calls[r][i].data
C15_Witness ==
  \E r \in Reqs :
    /\ Cardinality(CallsOf(calls[r], "sendTransaction")) = 1
    /\ Cardinality(CallsOf(calls[r], "POST /transactions")) = 1
    /\ OkReply(r, {"tx.wait"})
    /\ Responded(r)
    /\ UnsignedReturns(r) = {}

\* the build service answered request r with a body that lacks to or data
IncompleteBuild(r) == \E t \in RepliesOf(r, "POST /transactions") : t.ok /\ ~ CompleteTx(t.data)
\* the allowance slots whose approval request r saw confirmed
ConfirmedSlots(r) ==
  {<<calls[r][i].token, SignerAddress, calls[r][i].spender>> :
     i \in {j \in CallsOf(calls[r], "approve") : OkReply(r, {"approve.wait"})}}

\* C16: a build reply without a destination address or without call-data ends
\* the request, in either mode, with the incomplete-transaction failure, which
\* carries the trace; nothing is broadcast, and an approval the request saw
\* confirmed before is still in effect.
C16_IncompleteTx ==
  \A r \in Reqs :
    IncompleteBuild(r) =>
      /\ Responded(r)
      /\ Rsp(r).status = 400
      /\ ~ Rsp(r).ok
      /\ Rsp(r).error = "ParaSwap nao retornou tx completa"
      /\ "logs" \in DOMAIN Rsp(r)
      /\ Rsp(r).logs = logs[r]
      /\ HasTag(logs[r], "PARASWAP_TX_BODY")
      /\ ~ HasTag(logs[r], "TX_OK")
      /\ ~ HasCall(calls[r], "sendTransaction")
      /\ \A k \in ConfirmedSlots(r) \cap AllowKeys : allowance[k] = MaxUint256
C16_Witness ==
  \E r \in Reqs :
    /\ IncompleteBuild(r)
    /\ SignedCase(r)
    /\ ConfirmedSlots(r) \cap AllowKeys # {}
    /\ Responded(r)
    /\ Rsp(r).error = "ParaSwap nao retornou tx completa"

Tags(L) == [i \in 1..Len(L) |-> L[i].tag]
\* the tags of the trace of a request that runs to its end
TraceOrder(signed, approves) ==
  <<"WALLET", "PARASWAP_PRICES", "PRICE_OK">>
    \o (IF signed THEN <<"ALLOWANCE">> ELSE <<>>)
    \o (IF signed /\ approves THEN <<"APPROVING", "APPROVE_SENT", "APPROVE_CONFIRMED">> ELSE <<>>)
    \o <<"PARASWAP_TX_BODY", "TX_OK">>
    \o (IF signed THEN <<"SENT", "CONFIRMED">> ELSE <<>>)
TraceInOrder(r) ==
  /\ ~ Validated(r) => logs[r] = <<>>
  /\ Validated(r) =>
       /\ IsPrefix(Tags(logs[r]), TraceOrder(SignedCase(r), HasTag(logs[r], "APPROVING")))
       /\ HasTag(logs[r], "APPROVING") => ReadInsufficient(r)
  /\ (Responded(r) /\ "logs" \in DOMAIN Rsp(r)) => Rsp(r).logs = logs[r]
TraceOnlyGrows(r) == pc[r] \notin {"idle", "done"} => IsPrefix(logs[r], logs'[r])

\* C17: the trace of a request only grows at its end, and its tags (so those
\* of every response that carries it) are a prefix of WALLET, PARASWAP_PRICES,
\* PRICE_OK, ALLOWANCE, APPROVING, APPROVE_SENT, APPROVE_CONFIRMED,
\* PARASWAP_TX_BODY, TX_OK, SENT, CONFIRMED, with ALLOWANCE, SENT and CONFIRMED
\* in signed mode only and the three approval tags only after an insufficient
\* allowance read.
C17_TraceOrdered ==
  /\ [](\A r \in Reqs : TraceInOrder(r))
  /\ [][\A r \in Reqs : TraceOnlyGrows(r)]_vars
C17_Witness ==
  \E r \in Reqs :
    /\ Responded(r)
    /\ Rsp(r).ok
    /\ Tags(Rsp(r).logs) = TraceOrder(TRUE, TRUE)

Received(r) == pc[r] # "idle"
OneResponse(r) == Len(resp[r]) <= 1 /\ (Responded(r) <=> Len(resp[r]) = 1)

\* C18: provided every external call returns or throws, a request that has
\* been received is answered, whatever path it takes, and it is answered once:
\* there is never a second response, and a request that has ended has one.
C18_ExactlyOneResponse ==
  /\ [](\A r \in Reqs : OneResponse(r))
  /\ \A r \in Reqs : Received(r) ~> Responded(r)
C18_Witness ==
  \E r \in Reqs :
    /\ Responded(r)
    /\ Len(resp[r]) = 1
    /\ FailedReply(r, {"approve.wait"})
    /\ "logs" \notin DOMAIN Rsp(r)

\* the transfer proxy a quote reply names: the one of its wrapper first
QuotedProxy(data) ==
  IF "priceRoute" \in DOMAIN data /\ "tokenTransferProxy" \in DOMAIN data.priceRoute
  THEN data.priceRoute.tokenTransferProxy
  ELSE data.tokenTransferProxy
\* call i of request r is an approval of the request's own source token, from
\* the request's wallet, to the proxy of the request's own quote
OwnApproval(r, i) ==
  /\ SignedCase(r)
  /\ signer.configured
  /\ toLowerCase(signer.address) = toLowerCase(local[r].wallet)
  /\ local[r].wallet = signer.address
  /\ local[r].wallet = assertAddr(Fields(r).wallet)
  /\ calls[r][i].token = assertAddr(Fields(r).tokenFrom)
  /\ \E j \in CallsOf(calls[r], "GET /prices") :
       /\ j < i
       /\ Answered(r, j)
       /\ replies[r][j].res.ok
       /\ ~ Unusable(replies[r][j].res.data)
       /\ calls[r][i].spender = QuotedProxy(replies[r][j].res.data)
  /\ \E j \in CallsOf(calls[r], "allowance") :
       /\ j < i
       /\ calls[r][j].token = calls[r][i].token
       /\ calls[r][j].owner = signer.address
       /\ calls[r][j].spender = calls[r][i].spender
\* an allowance slot changes only as the approval a request awaits is confirmed
OnlyApprovedSlotChanges ==
  \A k \in AllowKeys :
    allowance'[k] # allowance[k] =>
      \E r \in Reqs :
        /\ pc[r] = "approveWait"
        /\ \E i \in CallsOf(calls[r], "approve") :
             k = <<calls[r][i].token, signer.address, calls[r][i].spender>>

\* C19: an approval is submitted in signed mode only, after the wallet was
\* found to be the signer's address and the quote succeeded, and it is for the
\* request's source token, owned by the request's wallet (the signer), with
\* the transfer proxy of this request's quote as spender; no other allowance
\* slot is ever written.
C19_ApprovalOnlyForOwnQuote ==
  /\ [](\A r \in Reqs : \A i \in CallsOf(calls[r], "approve") : OwnApproval(r, i))
  /\ [][OnlyApprovedSlotChanges]_vars
C19_Witness ==
  \E r \in Reqs :
    \E i \in CallsOf(calls[r], "approve") :
      /\ OwnApproval(r, i)
      /\ "priceRoute" \in DOMAIN replies[r][2].res.data
      /\ "tokenTransferProxy" \in DOMAIN replies[r][2].res.data
      /\ calls[r][i].spender = Proxy1
      /\ OkReply(r, {"approve.wait"})
      /\ allowance[<<calls[r][i].token, signer.address, Proxy1>>] = MaxUint256

\* the entries of the trace of request r speak of r's own input and replies
OwnEntries(r) ==
  \A i \in 1..Len(logs[r]) :
    LET e == logs[r][i]
    IN /\ e.tag = "WALLET" => e.obj.amountWei = body[r].f.amountWei.v
       /\ e.tag = "PARASWAP_PRICES" => e.obj.amount = body[r].f.amountWei.v
       /\ e.tag = "ALLOWANCE" =>
            /\ e.obj.neededWei = body[r].f.amountWei.v
            /\ \E a \in RepliesOf(r, "allowance") : a.ok /\ e.obj.allowance = NatToStr(a.value)
       /\ e.tag = "PARASWAP_TX_BODY" => HasCall(calls[r], "POST /transactions")
       /\ e.tag \in {"APPROVING", "APPROVE_SENT", "APPROVE_CONFIRMED"} =>
            HasCall(calls[r], "approve")
       /\ e.tag \in {"SENT", "CONFIRMED"} => HasCall(calls[r], "sendTransaction")
\* a step writes to the trace of one request at most
OneTraceAtATime ==
  \A r \in Reqs : \A q \in Reqs \ {r} : logs'[r] # logs[r] => logs'[q] = logs[q]
OwnApprovalConfirmed(r) ==
  \E i \in CallsOf(calls[r], "approve") :
    /\ Answered(r, i + 1)
    /\ calls[r][i + 1].op = "approve.wait"
    /\ replies[r][i + 1].res.ok

\* C20: however concurrent signed-mode requests for the same wallet and token
\* interleave, each submits at most one approval (so no more approvals than
\* requests, though possibly more than one in all), each one's trace holds
\* only its own entries, and none broadcasts its swap before it has read a
\* sufficient allowance or seen its own approval confirmed.
C20_ConcurrentRequests ==
  /\ [](\A r \in Reqs :
          /\ Cardinality(CallsOf(calls[r], "approve")) <= 1
          /\ OwnEntries(r)
          /\ HasCall(calls[r], "sendTransaction") => (ReadSufficient(r) \/ OwnApprovalConfirmed(r)))
  /\ [][OneTraceAtATime]_vars
C20_Witness ==
  \E r \in Reqs : \E q \in Reqs \ {r} :
    /\ OwnApprovalConfirmed(r)
    /\ OwnApprovalConfirmed(q)
    /\ body[r].f.amountWei # body[q].f.amountWei
    /\ \A i \in CallsOf(calls[r], "approve") : \A j \in CallsOf(calls[q], "approve") :
         calls[r][i].token = calls[q][j].token /\ calls[r][i].spender = calls[q][j].spender
    /\ HasCall(calls[r], "sendTransaction")
    /\ pc[q] = "transactions"
====
